---------------------------- MODULE Spec2Model ----------------------------
(***************************************************************************)
(* Model of the SimpleChatting server (src/server.py).                     *)
(*                                                                         *)
(* The heap of Python objects is modelled explicitly, because the program  *)
(* shares Permissions objects between the group and its members and keeps  *)
(* references to Client objects after they have been removed from the      *)
(* roster:                                                                 *)
(*   perms    Permissions objects  (index = reference, value = _value)     *)
(*   clients  Client objects       (index = reference)                     *)
(*   groups   Group objects        (index = reference)                     *)
(*   users    User objects         (index = reference)                     *)
(* Reference 0 is Python's None.                                           *)
(*                                                                         *)
(* Five specifications are given over the same state:                      *)
(*   SpecApi  any sequence of calls of the methods of Group and Client     *)
(*            (one call at a time);                                        *)
(*   Spec     the server: the accept loop receive() and one handle()       *)
(*            thread per connection, interleaved between the statements    *)
(*            that read or write shared state;                             *)
(*   SpecRun  the handle() threads of Spec, started from the state in      *)
(*            which three clients have joined, with one more event;        *)
(*   SpecLive SpecRun with fewer events and fair handlers, for liveness;   *)
(*   SpecCmp  the comparisons of two Permissions objects.                  *)
(***************************************************************************)
EXTENDS Integers, Sequences, FiniteSets, TLC

\* ------------------------------------------------------------------ bounds
NSock == 3          \* connections the accept loop accepts in one run
MaxLines == 2       \* events (a line received by a handler, a peer going
                    \* away) in one run of Spec
RunLines == 3       \* events in one run of SpecRun
LiveLines == 2      \* events in one run of SpecLive
MaxBusy == 2        \* threads that are between two waits at the same moment
MaxFail == 1        \* connections whose peer goes away in one run
MaxGroups == 2      \* Group objects created in one run
MaxCalls == 4       \* method calls in one run of SpecApi
MaxUsers == 2       \* User objects the callers of SpecApi hold

\* ------------------------------------------------------- program constants
ALL == 255
DEFAULT == 19

Sockets == 1..NSock
Names == {"a", "b", "c"}
\* the nicknames the peer of connection s may type when it joins: names are
\* only ever compared, so the k-th connection needs no more than k of them
JoinNames(s) == IF s = 1 THEN {"a"} ELSE IF s = 2 THEN {"a", "b"} ELSE Names
\* display names of the User objects SpecApi starts from
UserNames == {"a", "b"}
NoNick == "<None>"
\* permission values a caller or a /setperms line may supply
PermInputs == {0, 147, 255}

\* ------------------------------------------------------------- Permissions
Bit(v, k) == (v \div (2 ^ k)) % 2

RECURSIVE AndFrom(_, _, _)
AndFrom(a, b, k) ==
    IF k > 7 THEN 0
    ELSE Bit(a, k) * Bit(b, k) * (2 ^ k) + AndFrom(a, b, k + 1)

RECURSIVE OrFrom(_, _, _)
OrFrom(a, b, k) ==
    IF k > 7 THEN 0
    ELSE (IF Bit(a, k) + Bit(b, k) > 0 THEN 2 ^ k ELSE 0) + OrFrom(a, b, k + 1)

BitAnd(a, b) == AndFrom(a, b, 0)
BitOr(a, b) == OrFrom(a, b, 0)

read_messages(v) == Bit(v, 0) = 1
send_messages(v) == Bit(v, 1) = 1
kick_members(v) == Bit(v, 2) = 1
ban_members(v) == Bit(v, 3) = 1
change_nickname(v) == Bit(v, 4) = 1
update_permissions(v) == Bit(v, 7) = 1

perm_le(a, b) == BitAnd(a, b) = a
\* >= answered as <= is
perm_ge_as_le(a, b) == BitAnd(a, b) = a
perm_ge(a, b) == BitOr(a, b) = a
perm_lt(a, b) == perm_le(a, b) /\ a # b
perm_gt(a, b) == perm_ge(a, b) /\ a # b

\* ------------------------------------------------------------------- state
VARIABLES
    perms,      \* heap of Permissions objects: Seq of values
    clients,    \* heap of Client objects
    groups,     \* heap of Group objects
    users,      \* heap of User objects (SpecApi)
    nextId,     \* uuid4(): the next fresh identity
    group,      \* the module-level variable `group` (0 = None)
    conn,       \* state of each connection
    pc,         \* position of each thread (0 = receive(), s = handle(s))
    loc,        \* local variables of each thread
    lines,      \* events (lines received, peers going away) still to come
    res         \* SpecApi: the last call and how it ended

vars == <<perms, clients, groups, users, nextId, group, conn, pc, loc, lines, res>>
heap == <<perms, clients, groups, nextId>>

Threads == {0} \cup Sockets

\* --------------------------------------------------------- object helpers
\* User.__eq__ on two Client references: same socket
client_eq(c, d) == clients[c].socket = clients[d].socket

\* first position of `seq` whose client has socket s, 0 when there is none
RECURSIVE FirstWithSocket(_, _, _)
FirstWithSocket(seq, s, i) ==
    IF i > Len(seq) THEN 0
    ELSE IF clients[seq[i]].socket = s THEN i
    ELSE FirstWithSocket(seq, s, i + 1)

RemoveAt(seq, i) == [j \in 1..(Len(seq) - 1) |-> IF j < i THEN seq[j] ELSE seq[j + 1]]

SeqToSet(seq) == {seq[i] : i \in DOMAIN seq}

Roster(g) == groups[g].clients
InRoster(g, c) == c \in SeqToSet(Roster(g))

\* Client.permissions.value; only used where the member has a Permissions object
PermValue(c) == perms[clients[c].permissions]

Alive(c) == clients[c].group # 0

\* Group.get_index_of: 1-based position, 0 for None
get_index_of(g, s) == FirstWithSocket(Roster(g), s, 1)

\* Group.search_member: the first member with that nickname, 0 for (-1, None)
RECURSIVE SearchFrom(_, _, _)
SearchFrom(seq, nick, i) ==
    IF i > Len(seq) THEN 0
    ELSE IF clients[seq[i]].nickname = nick THEN seq[i]
    ELSE SearchFrom(seq, nick, i + 1)

search_member(g, nick) == SearchFrom(Roster(g), nick, 1)

\* Client.is_owner: self._group.owner == self. Only called on a member whose
\* _group is set; a deleted group has owner None, which equals no client.
is_owner(c) ==
    LET o == groups[clients[c].group].owner
    IN  o # 0 /\ client_eq(o, c)

NewClient(name, sock, g, p, id) ==
    [socket |-> sock, id |-> id, name |-> name, group |-> g,
     permissions |-> p, nickname |-> name]

Killed(c) == [clients[c] EXCEPT !.group = 0, !.permissions = 0, !.nickname = NoNick]


\* ------------------------------------------------------------ Client._kill
\* self._group._clients.remove(self); then the three fields are cleared.
kill_outcome(c) ==
    IF clients[c].group = 0 THEN "AttributeError"
    ELSE IF FirstWithSocket(Roster(clients[c].group), clients[c].socket, 1) = 0
         THEN "ValueError"
    ELSE "ok"

\* a removal that also records the member's identity in the ban set
kill_banning(c) ==
    LET g == clients[c].group
        i == FirstWithSocket(Roster(g), clients[c].socket, 1)
    IN  /\ groups' = [groups EXCEPT ![g].clients = RemoveAt(@, i),
                                    ![g].bans = @ \cup {clients[c].id}]
        /\ clients' = [clients EXCEPT ![c] = Killed(c)]

kill(c) ==
    LET g == clients[c].group
        i == FirstWithSocket(Roster(g), clients[c].socket, 1)
    IN  /\ groups' = [groups EXCEPT ![g].clients = RemoveAt(@, i)]
        /\ clients' = [clients EXCEPT ![c] = Killed(c)]

\* ------------------------------------------------------------- Client.kick
kick_outcome(c) ==
    IF clients[c].group = 0 THEN "AttributeError"
    ELSE IF is_owner(c) THEN "Forbidden"
    ELSE kill_outcome(c)

\* -------------------------------------------------------------- Client.ban
\* group = self._group; self.kick(); group._bans.add(self._id)
ban(c) ==
    LET g == clients[c].group
        i == FirstWithSocket(Roster(g), clients[c].socket, 1)
    IN  /\ groups' = [groups EXCEPT ![g].clients = RemoveAt(@, i),
                                    ![g].bans = @ \cup {clients[c].id}]
        /\ clients' = [clients EXCEPT ![c] = Killed(c)]

\* --------------------------------------------------------------- Group.add
\* "existing": a member with the same socket is returned; "Forbidden": the
\* user's id is in _bans; "TypeError": Client() refuses a None default
\* (the group has been deleted); "new": a member is appended.
add_outcome(g, sock, uid) ==
    IF FirstWithSocket(Roster(g), sock, 1) # 0 THEN "existing"
    ELSE IF uid \in groups[g].bans THEN "Forbidden"
    ELSE IF groups[g].default_perms = 0 THEN "TypeError"
    ELSE "new"

\* member = Client(user.name, user.socket, self, self._default_perms): the
\* new member holds the group's own Permissions object, and Client.__init__
\* (through User.__init__) draws a fresh uuid for it.
add(g, name, sock, cid) ==
    /\ clients' = Append(clients, NewClient(name, sock, g, groups[g].default_perms, cid))
    /\ groups' = [groups EXCEPT ![g].clients = Append(@, Len(clients) + 1)]

\* ---------------------------------------------------------- Group.__init__
\* the founder becomes a Client holding a new Permissions.all(); the default
\* is a new Permissions.default(); cid and gid are the two uuids drawn.
NewGroup(name, sock, cid, gid) ==
    /\ perms' = perms \o <<ALL, DEFAULT>>
    /\ clients' = Append(clients,
                         NewClient(name, sock, Len(groups) + 1, Len(perms) + 1, cid))
    /\ groups' = Append(groups,
                        [owner |-> Len(clients) + 1,
                         clients |-> <<Len(clients) + 1>>,
                         bans |-> {},
                         default_perms |-> Len(perms) + 2,
                         is_public |-> TRUE,
                         id |-> gid])

\* ------------------------------------------ Group.change_default_permissions
change_default_outcome(g, v) ==
    IF groups[g].default_perms = 0 THEN "AttributeError"
    ELSE IF v = perms[groups[g].default_perms] THEN "return"
    ELSE "ok"

\* self._default_perms.update(new_value): the object is changed in place
change_default_permissions(g, v) ==
    perms' = [perms EXCEPT ![groups[g].default_perms] = v]

\* ------------------------------------------------ Group.transfer_ownership
transfer_outcome(g, m) ==
    IF groups[g].owner # 0 /\ client_eq(groups[g].owner, m) THEN "return"
    ELSE "ok"

\* the grant written into the Permissions object the member already holds
transfer_grant_in_place(m) ==
    /\ perms' = [perms EXCEPT ![clients[m].permissions] = ALL]
    /\ clients' = clients

\* new_owner._permissions = Permissions.all()
transfer_grant(m) ==
    /\ perms' = Append(perms, ALL)
    /\ clients' = [clients EXCEPT ![m].permissions = Len(perms) + 1]

\* self._owner = new_owner
transfer_assign(g, m) ==
    groups' = [groups EXCEPT ![g].owner = m]

\* ------------------------------------------------------------ Group.delete
\* `for member in self._clients: member._kill()` walks the list by position
\* while _kill removes from that same list. DeleteWalk returns the members
\* the loop has killed, what is left of the list and the exception that
\* ended the loop, if any (a roster entry whose _group is not this group).
RECURSIVE DeleteWalk(_, _, _, _)
DeleteWalk(g, seq, i, killed) ==
    IF i > Len(seq) THEN [killed |-> killed, left |-> seq, err |-> "ok"]
    ELSE LET m == seq[i]
             j == FirstWithSocket(seq, clients[m].socket, 1)
         IN  IF clients[m].group # g \/ m \in killed
             THEN [killed |-> killed, left |-> seq, err |-> "AttributeError"]
             ELSE DeleteWalk(g, RemoveAt(seq, j), i + 1, killed \cup {m})

delete_outcome(g) == DeleteWalk(g, Roster(g), 1, {}).err

\* the five fields are cleared first; _clients.clear() and _bans.clear() are
\* reached only when the loop ends without an exception
delete(g) ==
    LET w == DeleteWalk(g, Roster(g), 1, {})
    IN  /\ clients' = [c \in DOMAIN clients |->
                          IF c \in w.killed THEN Killed(c) ELSE clients[c]]
        /\ groups' = [groups EXCEPT
                          ![g].is_public = FALSE,
                          ![g].id = 0,
                          ![g].default_perms = 0,
                          ![g].owner = 0,
                          ![g].clients = IF w.err = "ok" THEN <<>> ELSE w.left,
                          ![g].bans = IF w.err = "ok" THEN {} ELSE @]

\* -------------------------------------------------- Client.set_permissions
\* mutant: the owner test made before the test for an unchanged value
set_permissions_owner_first(m, v) ==
    IF clients[m].permissions = 0 \/ clients[m].group = 0 THEN "AttributeError"
    ELSE IF is_owner(m) THEN "Forbidden"
    ELSE IF v = PermValue(m) THEN "return"
    ELSE "ok"

set_permissions_outcome(m, v) ==
    IF clients[m].permissions = 0 THEN "AttributeError"
    ELSE IF v = PermValue(m) THEN "return"
    ELSE IF clients[m].group = 0 THEN "AttributeError"
    ELSE IF is_owner(m) THEN "Forbidden"
    ELSE "ok"

\* self._permissions.update(new_value): the object is changed in place
update_outcome(m) ==
    IF clients[m].permissions = 0 THEN "AttributeError" ELSE "ok"

set_permissions_update(m, v) ==
    perms' = [perms EXCEPT ![clients[m].permissions] = v]

\* ------------------------------------------------ Client.reset_permissions
reset_permissions_outcome(m) ==
    IF clients[m].group = 0 THEN "AttributeError"
    ELSE LET d == groups[clients[m].group].default_perms
             p == clients[m].permissions
         IN  IF p # 0 /\ d # 0 /\ perms[p] = perms[d] THEN "return"
             ELSE IF is_owner(m) THEN "Forbidden"
             ELSE "ok"

\* self._permissions = self._group.default_perms
reset_permissions(m) ==
    clients' = [clients EXCEPT ![m].permissions = groups[clients[m].group].default_perms]

\* ----------------------------------------------------- Client.set_nickname
set_nickname_outcome(m, v) ==
    IF v = clients[m].nickname THEN "return"
    ELSE IF clients[m].group = 0 THEN "AttributeError"
    ELSE IF \E u \in SeqToSet(Roster(clients[m].group)) : clients[u].nickname = v
         THEN "Forbidden"
    ELSE "ok"

set_nickname(m, v) ==
    clients' = [clients EXCEPT ![m].nickname = v]

\* --------------------------------------------------- Client.reset_nickname
reset_nickname_outcome(m) ==
    IF clients[m].nickname = clients[m].name THEN "return" ELSE "ok"

reset_nickname(m) ==
    clients' = [clients EXCEPT ![m].nickname = clients[m].name]


\* the local variables of a thread. out is what the thread has written to
\* the transports since its current loop iteration began: <<socket, kind>>.
Loc0 ==
    [client |-> 0, index |-> 0, member |-> 0, num |-> 0, g |-> 0,
     snap |-> <<>>, bmsg |-> "", bexc |-> 0, ret |-> "",
     cmd |-> "", cause |-> "", inexc |-> FALSE, sock |-> 0, name |-> "",
     out |-> {}]

\* ================================================================ SpecApi
\* One call of a method of Group or Client at a time, on any object made so
\* far. res records the call (op, target, argument) and how it ended: "ok",
\* "return" (the method's early return) or the exception it raised.
Result(op, tgt, arg, ret) ==
    res' = [n |-> res.n + 1, op |-> op, tgt |-> tgt, arg |-> arg, ret |-> ret]

ServerIdle == UNCHANGED <<group, conn, pc, loc, lines>>

CallBudget == res.n < MaxCalls

ClientRefs == DOMAIN clients
GroupRefs == DOMAIN groups

\* Group("Default", user)
ApiCreate(u) ==
    /\ CallBudget
    /\ Len(groups) < MaxGroups
    /\ NewGroup(users[u].name, users[u].socket, nextId, nextId + 1)
    /\ nextId' = nextId + 2
    /\ Result("create", Len(groups) + 1, u, "ok")
    /\ UNCHANGED users
    /\ ServerIdle

\* group.add(user)
ApiAdd(g, u) ==
    /\ CallBudget
    /\ LET o == add_outcome(g, users[u].socket, users[u].id)
       IN  /\ IF o = "new"
              THEN /\ add(g, users[u].name, users[u].socket, nextId)
                   /\ nextId' = nextId + 1
              ELSE UNCHANGED <<clients, groups, nextId>>
           /\ Result("add", g, u, o)
           /\ UNCHANGED <<perms, users>>
           /\ ServerIdle

ApiChangeDefault(g, v) ==
    /\ CallBudget
    /\ LET o == change_default_outcome(g, v)
       IN  /\ IF o = "ok" THEN change_default_permissions(g, v) ELSE UNCHANGED perms
           /\ Result("change_default_permissions", g, v, o)
           /\ UNCHANGED <<clients, groups, users, nextId>>
           /\ ServerIdle

ApiTransfer(g, m) ==
    /\ CallBudget
    /\ LET o == transfer_outcome(g, m)
       IN  /\ IF o = "ok"
              THEN transfer_grant(m) /\ transfer_assign(g, m)
              ELSE UNCHANGED <<perms, clients, groups>>
           /\ Result("transfer_ownership", g, m, o)
           /\ UNCHANGED <<users, nextId>>
           /\ ServerIdle

ApiDelete(g) ==
    /\ CallBudget
    /\ delete(g)
    /\ Result("delete", g, 0, delete_outcome(g))
    /\ UNCHANGED <<perms, users, nextId>>
    /\ ServerIdle

ApiSetPermissions(m, v) ==
    /\ CallBudget
    /\ LET o == set_permissions_outcome(m, v)
       IN  /\ IF o = "ok" THEN set_permissions_update(m, v) ELSE UNCHANGED perms
           /\ Result("set_permissions", m, v, o)
           /\ UNCHANGED <<clients, groups, users, nextId>>
           /\ ServerIdle

ApiResetPermissions(m) ==
    /\ CallBudget
    /\ LET o == reset_permissions_outcome(m)
       IN  /\ IF o = "ok" THEN reset_permissions(m) ELSE UNCHANGED clients
           /\ Result("reset_permissions", m, 0, o)
           /\ UNCHANGED <<perms, groups, users, nextId>>
           /\ ServerIdle

ApiSetNickname(m, v) ==
    /\ CallBudget
    /\ LET o == set_nickname_outcome(m, v)
       IN  /\ IF o = "ok" THEN set_nickname(m, v) ELSE UNCHANGED clients
           /\ Result("set_nickname", m, 0, o)
           /\ UNCHANGED <<perms, groups, users, nextId>>
           /\ ServerIdle

ApiResetNickname(m) ==
    /\ CallBudget
    /\ LET o == reset_nickname_outcome(m)
       IN  /\ IF o = "ok" THEN reset_nickname(m) ELSE UNCHANGED clients
           /\ Result("reset_nickname", m, 0, o)
           /\ UNCHANGED <<perms, groups, users, nextId>>
           /\ ServerIdle

ApiKick(m) ==
    /\ CallBudget
    /\ LET o == kick_outcome(m)
       IN  /\ IF o = "ok" THEN kill(m) ELSE UNCHANGED <<clients, groups>>
           /\ Result("kick", m, 0, o)
           /\ UNCHANGED <<perms, users, nextId>>
           /\ ServerIdle

ApiBan(m) ==
    /\ CallBudget
    /\ LET o == kick_outcome(m)
       IN  /\ IF o = "ok" THEN ban(m) ELSE UNCHANGED <<clients, groups>>
           /\ Result("ban", m, 0, o)
           /\ UNCHANGED <<perms, users, nextId>>
           /\ ServerIdle

Init ==
    /\ perms = <<>>
    /\ clients = <<>>
    /\ groups = <<>>
    /\ users = <<>>
    /\ nextId = 1
    /\ group = 0
    /\ conn = [s \in Sockets |-> "new"]
    /\ pc = [t \in Threads |-> IF t = 0 THEN "accept" ELSE "idle"]
    /\ loc = [t \in Threads |-> Loc0]
    /\ lines = MaxLines
    /\ res = [n |-> 0, op |-> "none", tgt |-> 0, arg |-> 0, ret |-> "ok"]

NextApi ==
    \/ \E u \in DOMAIN users : ApiCreate(u)
    \/ \E g \in GroupRefs, u \in DOMAIN users : ApiAdd(g, u)
    \/ \E g \in GroupRefs, v \in PermInputs : ApiChangeDefault(g, v)
    \/ \E g \in GroupRefs, m \in ClientRefs : ApiTransfer(g, m)
    \/ \E g \in GroupRefs : ApiDelete(g)
    \/ \E m \in ClientRefs, v \in PermInputs : ApiSetPermissions(m, v)
    \/ \E m \in ClientRefs : ApiResetPermissions(m)
    \/ \E m \in ClientRefs, v \in Names : ApiSetNickname(m, v)
    \/ \E m \in ClientRefs : ApiResetNickname(m)
    \/ \E m \in ClientRefs : ApiKick(m)
    \/ \E m \in ClientRefs : ApiBan(m)

\* The callers' User objects exist before the first call: User(name, socket)
\* for MaxUsers different sockets, each with the uuid drawn at construction.
InitApi ==
    /\ perms = <<>>
    /\ clients = <<>>
    /\ groups = <<>>
    /\ users \in [1..MaxUsers -> [name : UserNames, socket : 1..MaxUsers, id : 1..MaxUsers]]
    /\ \A u \in 1..MaxUsers : users[u].socket = u /\ users[u].id = u
    /\ nextId = MaxUsers + 1
    /\ group = 0
    /\ conn = [s \in Sockets |-> "new"]
    /\ pc = [t \in Threads |-> IF t = 0 THEN "accept" ELSE "idle"]
    /\ loc = [t \in Threads |-> Loc0]
    /\ lines = 0
    /\ res = [n |-> 0, op |-> "none", tgt |-> 0, arg |-> 0, ret |-> "ok"]

SpecApi == InitApi /\ [][NextApi]_vars



\* =================================================================== Spec
\* The server. A step of a thread runs from one access of shared state to
\* the next: a test and the write that depends on it are separate steps
\* whenever they are separate statements of the source. Client._kill,
\* Group.delete, Group.add and the scans of the roster are single steps.
\* A thread is busy from the moment its wait (accept, or recv in handle)
\* returns until it waits again or ends.
Busy(t) == pc[t] \notin {"idle", "accept", "recv", "done", "crashed"}
CanStart == Cardinality({t \in Threads : Busy(t)}) < MaxBusy

Step(t, p, l) ==
    /\ pc' = [pc EXCEPT ![t] = p]
    /\ loc' = [loc EXCEPT ![t] = l]

\* An exception raised in thread t whose locals are l. In handle() the bare
\* `except:` takes it (line 657); raised inside that handler, `finally:
\* break` ends the loop (lines 668-669). In receive() nothing catches it.
Raise(t, l, cause) ==
    IF t = 0 THEN Step(t, "crashed", [l EXCEPT !.cause = cause])
    ELSE IF l.inexc THEN Step(t, "done", l)
    ELSE Step(t, "except", [l EXCEPT !.cause = cause, !.inexc = TRUE])

\* socket.send: succeeds on an open connection, fails on one the server has
\* closed, and may do either once the peer has gone.
SendOK(sock) == conn[sock] \in {"open", "lost"}
SendFails(sock) == conn[sock] \in {"lost", "closed"}

Sent(l, sock, kind) == [l EXCEPT !.out = @ \cup {<<sock, kind>>}]

\* client.send(kind) on transport sock, then on to p
Reply(t, l, sock, kind, p) ==
    \/ SendOK(sock) /\ Step(t, p, Sent(l, sock, kind))
    \/ SendFails(sock) /\ Raise(t, l, "OSError")

\* ------------------------------------------------------------- broadcast
\* broadcast(message, exc): `for client in group.clients` takes a copy of the
\* roster (Broadcast); then each member of the copy is tested and written to
\* in turn (Deliver). The loop reads the members' permissions and writes to
\* transports only, so its iterations are run as one step.
StartBroadcast(t, l, msg, exc, ret) ==
    Step(t, "bcast", [l EXCEPT !.bmsg = msg, !.bexc = exc, !.ret = ret])

Broadcast(t) ==
    /\ pc[t] = "bcast"
    /\ IF group = 0 THEN Raise(t, loc[t], "AttributeError")
       ELSE Step(t, "deliver", [loc[t] EXCEPT !.snap = Roster(group)])
    /\ UNCHANGED <<heap, users, group, conn, lines, res>>

\* whether broadcast writes to member cl: read_messages and not the excluded
Receives(cl, exc) ==
    /\ read_messages(PermValue(cl))
    /\ (exc = 0 \/ ~client_eq(exc, cl))

\* The loop over the copy from position i on: the transports written to and
\* the exception that ends the loop, if any. A destroyed member has no
\* permissions (AttributeError); a write fails on a closed transport, and at
\* position failAt (one whose peer has gone).
RECURSIVE DeliverWalk(_, _, _, _, _)
DeliverWalk(snap, exc, failAt, i, done) ==
    IF i > Len(snap) THEN [to |-> done, err |-> "ok"]
    ELSE LET cl == snap[i]
         IN  IF clients[cl].permissions = 0 THEN [to |-> done, err |-> "AttributeError"]
             ELSE IF ~Receives(cl, exc) THEN DeliverWalk(snap, exc, failAt, i + 1, done)
             ELSE IF i = failAt \/ conn[clients[cl].socket] = "closed"
                  THEN [to |-> done, err |-> "OSError"]
             ELSE DeliverWalk(snap, exc, failAt, i + 1, done \cup {clients[cl].socket})

Deliver(t) ==
    /\ pc[t] = "deliver"
    /\ \E failAt \in 0..Len(loc[t].snap) :
          /\ failAt # 0 => conn[clients[loc[t].snap[failAt]].socket] = "lost"
          /\ LET w == DeliverWalk(loc[t].snap, loc[t].bexc, failAt, 1, {})
                 l == [loc[t] EXCEPT !.snap = <<>>,
                                     !.out = @ \cup {<<x, loc[t].bmsg>> : x \in w.to}]
             IN  IF w.err = "ok" THEN Step(t, loc[t].ret, l) ELSE Raise(t, l, w.err)
    /\ UNCHANGED <<heap, users, group, conn, lines, res>>

\* ------------------------------------------------------- handle(socket)
\* lines 444-449: a new iteration; the group and the index lookup
Top(s) ==
    /\ pc[s] = "top"
    /\ IF group = 0 THEN Step(s, "done", Loc0)
       ELSE IF get_index_of(group, s) = 0 THEN Step(s, "done", Loc0)
       ELSE Step(s, "bind", [Loc0 EXCEPT !.index = get_index_of(group, s)])
    /\ UNCHANGED <<heap, users, group, conn, lines, res>>

\* line 450, outside the try: client = group.clients[index]
Bind(s) ==
    /\ pc[s] = "bind"
    /\ IF group = 0 THEN Step(s, "crashed", [loc[s] EXCEPT !.cause = "AttributeError"])
       ELSE IF loc[s].index > Len(Roster(group))
            THEN Step(s, "crashed", [loc[s] EXCEPT !.cause = "IndexError"])
       ELSE Step(s, "recv", [loc[s] EXCEPT !.client = Roster(group)[loc[s].index]])
    /\ UNCHANGED <<heap, users, group, conn, lines, res>>

\* socket.recv returns a line: the connection is open
Line(s) ==
    /\ pc[s] = "recv"
    /\ conn[s] = "open"
    /\ lines > 0
    /\ CanStart
    /\ lines' = lines - 1

Quiet == UNCHANGED <<heap, users, group, conn, res>>

Me(s) == loc[s].client
MySock(s) == clients[Me(s)].socket
Cmd(s, c) == [loc[s] EXCEPT !.cmd = c]

\* socket.recv on a connection whose peer has gone, or that the server has
\* closed: it raises, or (peer gone) returns b"" and the loop continues
RecvFails(s) ==
    /\ pc[s] = "recv"
    /\ conn[s] \in {"lost", "closed"}
    /\ CanStart
    /\ Raise(s, Cmd(s, "recv"), "recv")
    /\ UNCHANGED <<heap, users, group, conn, lines, res>>

RecvEmpty(s) ==
    /\ pc[s] = "recv"
    /\ conn[s] = "lost"
    /\ CanStart
    /\ Step(s, "top", Cmd(s, "empty"))
    /\ UNCHANGED <<heap, users, group, conn, lines, res>>

\* /id (lines 458-460)
RecvId(s) ==
    /\ Line(s)
    /\ Reply(s, Cmd(s, "/id"), MySock(s), "id", "top")
    /\ Quiet

\* /info (lines 462-473): the header and the copy of the roster (RecvInfo),
\* then one entry per member of the copy and the footer (InfoLoop)
RecvInfo(s) ==
    /\ Line(s)
    /\ LET l == Cmd(s, "/info")
       IN  \/ /\ SendOK(MySock(s))
              /\ IF group = 0 THEN Raise(s, Sent(l, MySock(s), "info"), "AttributeError")
                 ELSE Step(s, "info", [Sent(l, MySock(s), "info") EXCEPT !.snap = Roster(group)])
           \/ SendFails(MySock(s)) /\ Raise(s, l, "OSError")
    /\ Quiet

\* what the loop of /info raises on the members of the copy, "ok" if nothing
InfoWalk(snap) ==
    IF \E i \in DOMAIN snap : clients[snap[i]].group = 0 THEN "AttributeError"
    ELSE IF \E i \in DOMAIN snap : ~is_owner(snap[i]) /\ group = 0 THEN "AttributeError"
    ELSE IF \E i \in DOMAIN snap :
               /\ ~is_owner(snap[i])
               /\ (groups[group].default_perms = 0 \/ clients[snap[i]].permissions = 0)
         THEN "TypeError"
    ELSE "ok"

InfoLoop(s) ==
    /\ pc[s] = "info"
    /\ LET l == [loc[s] EXCEPT !.snap = <<>>]
       IN  IF InfoWalk(loc[s].snap) # "ok" THEN Raise(s, l, InfoWalk(loc[s].snap))
           ELSE Reply(s, l, MySock(s), "info_end", "top")
    /\ UNCHANGED <<heap, users, group, conn, lines, res>>

\* /quit without the test of line 476
RecvQuit_no_owner_test(s) ==
    /\ Line(s)
    /\ LET l == Cmd(s, "/quit")
       IN  IF clients[Me(s)].group = 0 THEN Raise(s, l, "AttributeError")
           ELSE Reply(s, l, MySock(s), "/quit", "quit_kill")
    /\ Quiet

\* /quit (lines 475-483)
RecvQuit(s) ==
    /\ Line(s)
    /\ LET l == Cmd(s, "/quit")
       IN  IF clients[Me(s)].group = 0 THEN Raise(s, l, "AttributeError")
           ELSE IF is_owner(Me(s)) THEN Reply(s, l, MySock(s), "quit_refused", "top")
           ELSE Reply(s, l, MySock(s), "/quit", "quit_kill")
    /\ Quiet

QuitKill(s) ==
    /\ pc[s] = "quit_kill"
    /\ IF kill_outcome(Me(s)) = "ok"
       THEN kill(Me(s)) /\ StartBroadcast(s, loc[s], "left", 0, "done")
       ELSE Raise(s, loc[s], kill_outcome(Me(s))) /\ UNCHANGED <<clients, groups>>
    /\ UNCHANGED <<perms, nextId, users, group, conn, lines, res>>

\* /delete (lines 485-492)
RecvDelete(s) ==
    /\ Line(s)
    /\ LET l == Cmd(s, "/delete")
       IN  IF clients[Me(s)].group = 0 THEN Raise(s, l, "AttributeError")
           ELSE IF ~is_owner(Me(s)) THEN Reply(s, l, MySock(s), "denied", "top")
           ELSE StartBroadcast(s, l, "/delete", 0, "del")
    /\ Quiet

\* group.delete() (lines 490 and 662)
Delete(s) ==
    /\ pc[s] = "del"
    /\ IF group = 0
       THEN Raise(s, loc[s], "AttributeError") /\ UNCHANGED <<clients, groups>>
       ELSE /\ delete(group)
            /\ IF delete_outcome(group) = "ok" THEN Step(s, "del2", loc[s])
               ELSE Raise(s, loc[s], delete_outcome(group))
    /\ UNCHANGED <<perms, nextId, users, group, conn, lines, res>>

\* group = None (lines 491 and 663), then break
ClearGroup(s) ==
    /\ pc[s] = "del2"
    /\ group' = 0
    /\ Step(s, "done", loc[s])
    /\ UNCHANGED <<heap, users, conn, lines, res>>

\* the commands without their argument (lines 494-527)
BareFails(k, c) ==
    IF k = "/setowner" THEN clients[c].group = 0 ELSE clients[c].permissions = 0

BareNeeds(k, c) ==
    IF k = "/setowner" THEN is_owner(c)
    ELSE IF k = "/nick" THEN change_nickname(PermValue(c))
    ELSE IF k = "/kick" THEN kick_members(PermValue(c))
    ELSE IF k = "/ban" THEN ban_members(PermValue(c))
    ELSE update_permissions(PermValue(c))

RecvBare(s, k) ==
    /\ Line(s)
    /\ LET l == Cmd(s, k)
       IN  IF BareFails(k, Me(s)) THEN Raise(s, l, "AttributeError")
           ELSE IF ~BareNeeds(k, Me(s)) THEN Reply(s, l, MySock(s), "denied", "top")
           ELSE Reply(s, l, MySock(s), "missing_argument", "top")
    /\ Quiet

\* /nick X (lines 529-546); set_nickname's tests are made here, its write in
\* NickSet
RecvNick(s, x) ==
    /\ Line(s)
    /\ LET l == Cmd(s, "/nick")
           o == set_nickname_outcome(Me(s), x)
       IN  IF clients[Me(s)].permissions = 0 THEN Raise(s, l, "AttributeError")
           ELSE IF ~change_nickname(PermValue(Me(s)))
                THEN Reply(s, l, MySock(s), "denied", "top")
           ELSE IF o = "AttributeError" THEN Raise(s, l, o)
           ELSE IF o = "Forbidden" THEN Reply(s, l, MySock(s), "nick_taken", "top")
           ELSE IF o = "return" THEN StartBroadcast(s, l, "nick_changed", Me(s), "nick_conf")
           ELSE Step(s, "nick_set", [l EXCEPT !.name = x])
    /\ Quiet

\* self._nickname = value (line 386)
NickSet(s) ==
    /\ pc[s] = "nick_set"
    /\ set_nickname(Me(s), loc[s].name)
    /\ StartBroadcast(s, [loc[s] EXCEPT !.name = ""], "nick_changed", Me(s), "nick_conf")
    /\ UNCHANGED <<perms, groups, nextId, users, group, conn, lines, res>>

NickConfirm(s) ==
    /\ pc[s] = "nick_conf"
    /\ Reply(s, loc[s], MySock(s), "nick_ok", "top")
    /\ UNCHANGED <<heap, users, group, conn, lines, res>>

\* TargetTest without the comparison of the target's permissions with the
\* actor's (lines 562, 586, 625)
TargetTest_no_rank(c, m) ==
    IF m = 0 THEN "not_found"
    ELSE IF client_eq(c, m) THEN "self"
    ELSE IF is_owner(m) THEN "target_is_owner"
    ELSE "ok"

\* TargetTest without the test that the target is the owner (lines 559,
\* 583, 622)
TargetTest_no_owner(c, m) ==
    IF m = 0 THEN "not_found"
    ELSE IF client_eq(c, m) THEN "self"
    ELSE IF ~perm_le(PermValue(m), PermValue(c)) THEN "target_outranks"
    ELSE "ok"

\* the target tests shared by /kick, /ban and /setperms: the reply that
\* rejects target m for actor c, or "ok"
TargetTest(c, m) ==
    IF m = 0 THEN "not_found"
    ELSE IF client_eq(c, m) THEN "self"
    ELSE IF is_owner(m) THEN "target_is_owner"
    ELSE IF ~perm_le(PermValue(m), PermValue(c)) THEN "target_outranks"
    ELSE "ok"

\* /kick X and /ban X up to the target tests (lines 548-564 and 572-588)
RecvKickBan(s, k, x) ==
    /\ Line(s)
    /\ LET l == Cmd(s, k)
           c == Me(s)
       IN  IF clients[c].permissions = 0 THEN Raise(s, l, "AttributeError")
           ELSE IF ~(IF k = "/kick" THEN kick_members(PermValue(c))
                                    ELSE ban_members(PermValue(c)))
                THEN Reply(s, l, MySock(s), "denied", "top")
           ELSE IF group = 0 THEN Raise(s, l, "AttributeError")
           ELSE LET m == search_member(group, x)
                IN  IF TargetTest(c, m) # "ok"
                    THEN Reply(s, l, MySock(s), TargetTest(c, m), "top")
                    ELSE Step(s, "kick_do", [l EXCEPT !.member = m])
    /\ Quiet

\* member.send("/kick") and the owner test of Client.kick (lines 567, 396)
KickSignal(s) ==
    /\ pc[s] = "kick_do"
    /\ LET m == loc[s].member
           l == Sent(loc[s], clients[m].socket, loc[s].cmd)
       IN  \/ /\ SendOK(clients[m].socket)
              /\ IF clients[m].group = 0 THEN Raise(s, l, "AttributeError")
                 ELSE IF is_owner(m) THEN Raise(s, l, "Forbidden")
                 ELSE Step(s, "kick_kill", l)
           \/ SendFails(clients[m].socket) /\ Raise(s, loc[s], "OSError")
    /\ UNCHANGED <<heap, users, group, conn, lines, res>>

\* self._kill(), and for a ban group._bans.add(self._id) (lines 398, 404)
KickKill(s) ==
    /\ pc[s] = "kick_kill"
    /\ LET m == loc[s].member
       IN  IF kill_outcome(m) # "ok"
           THEN Raise(s, loc[s], kill_outcome(m)) /\ UNCHANGED <<clients, groups>>
           ELSE /\ IF loc[s].cmd = "/ban" THEN ban(m) ELSE kill(m)
                /\ StartBroadcast(s, loc[s],
                                  IF loc[s].cmd = "/ban" THEN "banned" ELSE "kicked",
                                  0, "top")
    /\ UNCHANGED <<perms, nextId, users, group, conn, lines, res>>


\* /setperms V X up to the target tests (lines 596-627)
RecvSetperms(s, v, x) ==
    /\ Line(s)
    /\ LET l == Cmd(s, "/setperms")
           c == Me(s)
       IN  IF clients[c].permissions = 0 THEN Raise(s, l, "AttributeError")
           ELSE IF ~update_permissions(PermValue(c))
                THEN Reply(s, l, MySock(s), "denied", "top")
           ELSE IF ~perm_ge(PermValue(c), v)
                THEN Reply(s, l, MySock(s), "cannot_grant", "top")
           ELSE IF group = 0 THEN Raise(s, l, "AttributeError")
           ELSE LET m == search_member(group, x)
                IN  IF TargetTest(c, m) # "ok"
                    THEN Reply(s, l, MySock(s), TargetTest(c, m), "top")
                    ELSE Step(s, "setperms_check", [l EXCEPT !.member = m, !.num = v])
    /\ Quiet

\* /setperms with a number that does not parse or is outside 0..255
\* (lines 600-611)
RecvSetpermsBad(s) ==
    /\ Line(s)
    /\ LET l == Cmd(s, "/setperms")
       IN  IF clients[Me(s)].permissions = 0 THEN Raise(s, l, "AttributeError")
           ELSE IF ~update_permissions(PermValue(Me(s)))
                THEN Reply(s, l, MySock(s), "denied", "top")
           ELSE Reply(s, l, MySock(s), "bad_number", "top")
    /\ Quiet

\* the tests of Client.set_permissions (lines 361-364)
SetpermsCheck(s) ==
    /\ pc[s] = "setperms_check"
    /\ LET o == set_permissions_outcome(loc[s].member, loc[s].num)
       IN  IF o = "ok" THEN Step(s, "setperms_update", loc[s])
           ELSE IF o = "return"
                THEN StartBroadcast(s, [loc[s] EXCEPT !.num = 0], "perms_changed", 0, "top")
           ELSE Raise(s, loc[s], o)
    /\ UNCHANGED <<heap, users, group, conn, lines, res>>

\* self._permissions.update(new_value) (line 365)
SetpermsUpdate(s) ==
    /\ pc[s] = "setperms_update"
    /\ IF update_outcome(loc[s].member) = "ok"
       THEN /\ set_permissions_update(loc[s].member, loc[s].num)
            /\ StartBroadcast(s, [loc[s] EXCEPT !.num = 0], "perms_changed", 0, "top")
       ELSE Raise(s, loc[s], "AttributeError") /\ UNCHANGED perms
    /\ UNCHANGED <<clients, groups, nextId, users, group, conn, lines, res>>

\* /setowner X up to the search (lines 632-642)
RecvSetowner(s, x) ==
    /\ Line(s)
    /\ LET l == Cmd(s, "/setowner")
           c == Me(s)
       IN  IF clients[c].group = 0 THEN Raise(s, l, "AttributeError")
           ELSE IF ~is_owner(c) THEN Reply(s, l, MySock(s), "denied", "top")
           ELSE IF group = 0 THEN Raise(s, l, "AttributeError")
           ELSE LET m == search_member(group, x)
                IN  IF m = 0 THEN Reply(s, l, MySock(s), "not_found", "top")
                    ELSE IF client_eq(c, m) THEN Reply(s, l, MySock(s), "self", "top")
                    ELSE Step(s, "own_grant", [l EXCEPT !.member = m])
    /\ Quiet

\* group.transfer_ownership(member) up to new_owner._permissions =
\* Permissions.all() (lines 643, 250-254)
OwnerGrant(s) ==
    /\ pc[s] = "own_grant"
    /\ IF group = 0
       THEN Raise(s, loc[s], "AttributeError") /\ UNCHANGED <<perms, clients>>
       ELSE IF transfer_outcome(group, loc[s].member) = "return"
            THEN /\ StartBroadcast(s, loc[s], "new_owner", loc[s].member, "own_conf")
                 /\ UNCHANGED <<perms, clients>>
       ELSE /\ transfer_grant(loc[s].member)
            /\ Step(s, "own_assign", [loc[s] EXCEPT !.g = group])
    /\ UNCHANGED <<groups, nextId, users, group, conn, lines, res>>

\* self._owner = new_owner (line 255)
OwnerAssign(s) ==
    /\ pc[s] = "own_assign"
    /\ transfer_assign(loc[s].g, loc[s].member)
    /\ StartBroadcast(s, loc[s], "new_owner", loc[s].member, "own_conf")
    /\ UNCHANGED <<perms, clients, nextId, users, group, conn, lines, res>>

\* member.send("You are now the group owner!") (line 645)
OwnerConfirm(s) ==
    /\ pc[s] = "own_conf"
    /\ Reply(s, loc[s], clients[loc[s].member].socket, "you_are_owner", "top")
    /\ UNCHANGED <<heap, users, group, conn, lines, res>>

\* any other /... (lines 648-650)
RecvUnknown(s) ==
    /\ Line(s)
    /\ Reply(s, Cmd(s, "unknown"), MySock(s), "unknown_command", "top")
    /\ Quiet

\* plain text (lines 652-656)
RecvText(s) ==
    /\ Line(s)
    /\ LET l == Cmd(s, "text")
       IN  IF clients[Me(s)].permissions = 0 THEN Raise(s, l, "AttributeError")
           ELSE IF send_messages(PermValue(Me(s)))
                THEN StartBroadcast(s, l, "text", Me(s), "top")
           ELSE Reply(s, l, MySock(s), "cannot_send", "top")
    /\ Quiet

\* the bare `except:` (lines 657-664): the owner's failure deletes the group
Except(s) ==
    /\ pc[s] = "except"
    /\ IF clients[Me(s)].group = 0 THEN Raise(s, loc[s], "AttributeError")
       ELSE IF is_owner(Me(s)) THEN StartBroadcast(s, loc[s], "/delete", 0, "del")
       ELSE Step(s, "exc_kill", loc[s])
    /\ UNCHANGED <<heap, users, group, conn, lines, res>>

\* client._kill(); client.socket.close() (lines 665-666), then the broadcast
ExceptKill(s) ==
    /\ pc[s] = "exc_kill"
    /\ IF kill_outcome(Me(s)) = "ok"
       THEN /\ kill(Me(s))
            /\ conn' = [conn EXCEPT ![MySock(s)] = "closed"]
            /\ StartBroadcast(s, loc[s], "left", 0, "done")
       ELSE /\ Raise(s, loc[s], kill_outcome(Me(s)))
            /\ UNCHANGED <<clients, groups, conn>>
    /\ UNCHANGED <<perms, nextId, users, group, lines, res>>

\* ---------------------------------------------------------------- receive
\* server.accept(), the "/nick" prompt and the test `group is None`
\* (lines 676-680). Connections are numbered in the order they are accepted.
Accept(s) ==
    /\ pc[0] = "accept"
    /\ conn[s] = "new"
    /\ \A x \in Sockets : x < s => conn[x] # "new"
    /\ CanStart
    /\ conn' = [conn EXCEPT ![s] = "open"]
    /\ Step(0, IF group = 0 THEN "create" ELSE "join",
            [Sent(Loc0, s, "/nick") EXCEPT !.sock = s])
    /\ UNCHANGED <<heap, users, group, lines, res>>

\* group = Group("Default", User(nickname, client)) (lines 681-683): three
\* uuids are drawn, for the User, the Client and the Group
Create(name) ==
    /\ pc[0] = "create"
    /\ conn[loc[0].sock] = "open"
    /\ Len(groups) < MaxGroups
    /\ NewGroup(name, loc[0].sock, nextId + 1, nextId + 2)
    /\ nextId' = nextId + 3
    /\ group' = Len(groups) + 1
    /\ StartBroadcast(0, [loc[0] EXCEPT !.name = name, !.client = Len(clients) + 1],
                      "joined", Len(clients) + 1, "connected")
    /\ UNCHANGED <<users, conn, lines, res>>

\* the founder's nickname is empty, or its connection has gone: User("")
\* or recv raises and nothing catches it
CreateFails ==
    /\ pc[0] = "create"
    /\ Raise(0, loc[0], IF conn[loc[0].sock] = "open" THEN "ValueError" ELSE "recv")
    /\ UNCHANGED <<heap, users, group, conn, lines, res>>

\* the nickname loop of a joining client (lines 685-693)
JoinNick(name) ==
    /\ pc[0] = "join"
    /\ conn[loc[0].sock] = "open"
    /\ LET l == [loc[0] EXCEPT !.name = name]
       IN  IF group = 0 THEN Raise(0, l, "AttributeError")
           ELSE IF search_member(group, name) # 0
                THEN Reply(0, l, loc[0].sock, "nick_chosen", "join")
           ELSE Step(0, "join_add", l)
    /\ UNCHANGED <<heap, users, group, conn, lines, res>>

\* recv on a joining connection whose peer has gone
JoinFails ==
    /\ pc[0] = "join"
    /\ conn[loc[0].sock] # "open"
    /\ Raise(0, loc[0], "recv")
    /\ UNCHANGED <<heap, users, group, conn, lines, res>>

\* curr_client = group.add(User(nickname, client)) (lines 694-698): one uuid
\* for the User, one for the Client that add makes
JoinAdd ==
    /\ pc[0] = "join_add"
    /\ IF group = 0
       THEN Raise(0, loc[0], "AttributeError") /\ UNCHANGED <<clients, groups, nextId>>
       ELSE LET o == add_outcome(group, loc[0].sock, nextId)
            IN  IF o = "new"
                THEN /\ add(group, loc[0].name, loc[0].sock, nextId + 1)
                     /\ nextId' = nextId + 2
                     /\ StartBroadcast(0, [loc[0] EXCEPT !.client = Len(clients) + 1],
                                       "joined", Len(clients) + 1, "connected")
                ELSE /\ nextId' = nextId + 1
                     /\ UNCHANGED <<clients, groups>>
                     /\ IF o = "Forbidden"
                        THEN \/ /\ SendOK(loc[0].sock)
                                /\ Step(0, "accept", Sent(loc[0], loc[0].sock, "you_are_banned"))
                             \/ SendFails(loc[0].sock) /\ Raise(0, loc[0], "OSError")
                        ELSE IF o = "TypeError" THEN Raise(0, loc[0], o)
                        ELSE LET m == Roster(group)[get_index_of(group, loc[0].sock)]
                             IN  StartBroadcast(0, [loc[0] EXCEPT !.client = m],
                                                "joined", m, "connected")
    /\ UNCHANGED <<perms, users, group, conn, lines, res>>

\* client.send("Connected to the server!") and the start of the handler
\* thread (lines 702-705)
Connected ==
    /\ pc[0] = "connected"
    /\ LET s == loc[0].sock
       IN  \/ /\ SendOK(s)
              /\ pc' = [pc EXCEPT ![0] = "accept", ![s] = "top"]
              /\ loc' = [loc EXCEPT ![0] = Sent(loc[0], s, "connected")]
           \/ SendFails(s) /\ Raise(0, loc[0], "OSError")
    /\ UNCHANGED <<heap, users, group, conn, lines, res>>

\* ------------------------------------------------------------ environment
\* the peer of a connection goes away; the server can notice it no earlier
\* than at the next recv or send on that connection
Disconnect(s) ==
    /\ conn[s] = "open"
    /\ \/ pc[s] = "recv"
       \/ pc[0] \in {"create", "join"} /\ loc[0].sock = s
    /\ Cardinality({x \in Sockets : conn[x] \in {"lost", "closed"}}) < MaxFail
    /\ lines > 0
    /\ lines' = lines - 1
    /\ conn' = [conn EXCEPT ![s] = "lost"]
    /\ UNCHANGED <<heap, users, group, pc, loc, res>>

BareCommands == {"/nick", "/kick", "/ban", "/setperms", "/setowner"}

Handle(s) ==
    \/ Top(s)
    \/ Bind(s)
    \/ RecvFails(s)
    \/ RecvEmpty(s)
    \/ RecvId(s)
    \/ RecvInfo(s)
    \/ InfoLoop(s)
    \/ RecvQuit(s)
    \/ QuitKill(s)
    \/ RecvDelete(s)
    \/ Delete(s)
    \/ ClearGroup(s)
    \/ \E k \in BareCommands : RecvBare(s, k)
    \/ \E x \in Names : RecvNick(s, x)
    \/ NickSet(s)
    \/ NickConfirm(s)
    \/ \E k \in {"/kick", "/ban"}, x \in Names : RecvKickBan(s, k, x)
    \/ KickSignal(s)
    \/ KickKill(s)
    \/ \E v \in PermInputs, x \in Names : RecvSetperms(s, v, x)
    \/ RecvSetpermsBad(s)
    \/ SetpermsCheck(s)
    \/ SetpermsUpdate(s)
    \/ \E x \in Names : RecvSetowner(s, x)
    \/ OwnerGrant(s)
    \/ OwnerAssign(s)
    \/ OwnerConfirm(s)
    \/ RecvUnknown(s)
    \/ RecvText(s)
    \/ Except(s)
    \/ ExceptKill(s)

Receive ==
    \/ \E s \in Sockets : Accept(s)
    \/ \E name \in JoinNames(loc[0].sock) : Create(name)
    \/ CreateFails
    \/ \E name \in JoinNames(loc[0].sock) : JoinNick(name)
    \/ JoinFails
    \/ JoinAdd
    \/ Connected

Next ==
    \/ Receive
    \/ \E s \in Sockets : Handle(s)
    \/ \E t \in Threads : Broadcast(t)
    \/ \E t \in Threads : Deliver(t)
    \/ \E s \in Sockets : Disconnect(s)

Spec == Init /\ [][Next]_vars

\* ---------------------------------------------------------------- SpecRun
\* The handlers alone, from the state the server is in once three clients
\* have connected one after the other as "a", "b" and "c" (JoinedAll, which
\* Spec reaches): "a" founded the group, "b" and "c" joined with its default
\* permissions, and each handler waits in recv.
JoinedAll ==
    /\ perms = <<ALL, DEFAULT>>
    /\ clients = <<NewClient("a", 1, 1, 1, 2),
                   NewClient("b", 2, 1, 2, 5),
                   NewClient("c", 3, 1, 2, 7)>>
    /\ groups = <<[owner |-> 1, clients |-> <<1, 2, 3>>, bans |-> {},
                   default_perms |-> 2, is_public |-> TRUE, id |-> 3]>>
    /\ nextId = 8
    /\ group = 1
    /\ \A s \in 1..3 : /\ conn[s] = "open"
                       /\ pc[s] = "recv"
                       /\ loc[s] = [Loc0 EXCEPT !.index = s, !.client = s]
    /\ pc[0] = "accept"

\* the state JoinedAll with n events still to come
InitJoined(n) ==
    /\ perms = <<ALL, DEFAULT>>
    /\ clients = <<NewClient("a", 1, 1, 1, 2),
                   NewClient("b", 2, 1, 2, 5),
                   NewClient("c", 3, 1, 2, 7)>>
    /\ groups = <<[owner |-> 1, clients |-> <<1, 2, 3>>, bans |-> {},
                   default_perms |-> 2, is_public |-> TRUE, id |-> 3]>>
    /\ users = <<>>
    /\ nextId = 8
    /\ group = 1
    /\ conn = [s \in Sockets |-> IF s <= 3 THEN "open" ELSE "new"]
    /\ pc = [t \in Threads |-> IF t = 0 THEN "accept" ELSE IF t <= 3 THEN "recv" ELSE "idle"]
    /\ loc = [t \in Threads |-> IF t \in 1..3 THEN [Loc0 EXCEPT !.index = t, !.client = t]
                                                ELSE Loc0]
    /\ lines = n
    /\ res = [n |-> 0, op |-> "none", tgt |-> 0, arg |-> 0, ret |-> "ok"]

InitRun == InitJoined(RunLines)

NextRun ==
    \/ \E s \in Sockets : Handle(s)
    \/ \E s \in Sockets : Broadcast(s)
    \/ \E s \in Sockets : Deliver(s)
    \/ \E s \in Sockets : Disconnect(s)

SpecRun == InitRun /\ [][NextRun]_vars

\* --------------------------------------------------------------- SpecLive
\* SpecRun with LiveLines events, under the scheduling of the threads: a
\* handler thread that can take a step is not kept from it for ever. What
\* recv returns on a connection whose peer has gone is the peer's doing
\* (b"" after a close, an error after a reset): no fairness is assumed
\* between RecvEmpty and RecvFails.
InitLive == InitJoined(LiveLines)

FairHandlers ==
    \A s \in Sockets : WF_vars(Handle(s) \/ Broadcast(s) \/ Deliver(s))

SpecLive == InitLive /\ [][NextRun]_vars /\ FairHandlers

\* ======================================================== claims (SpecApi)
\* user u's member of group g has been banned: a Client made from u (same
\* transport) has its identity in g's ban set
BannedUser(g, u) ==
    \E c \in ClientRefs : /\ clients[c].socket = users[u].socket
                          /\ clients[c].id \in groups[g].bans

\* C3 (as claimed): once the member created for user U has been banned, every
\* later add(U) fails with Forbidden and leaves the roster unchanged.
Orig_C3 ==
    [][\A g \in GroupRefs, u \in DOMAIN users :
          (res'.op = "add" /\ res'.tgt = g /\ res'.arg = u /\ BannedUser(g, u))
          => (res'.ret = "Forbidden" /\ groups'[g].clients = groups[g].clients)]_vars

Destroyed(c) ==
    clients[c].group = 0 /\ clients[c].permissions = 0 /\ clients[c].nickname = NoNick

\* C4 (as claimed): delete() on a group of n >= 1 members leaves roster and
\* ban set empty and every member of the roster before the call destroyed.
Orig_C4 ==
    [][\A g \in GroupRefs :
          (res'.op = "delete" /\ res'.tgt = g /\ Len(Roster(g)) >= 1)
          => /\ groups'[g].clients = <<>>
             /\ groups'[g].bans = {}
             /\ \A m \in SeqToSet(Roster(g)) : Destroyed(m)']_vars

\* C6 (as claimed): change_default_permissions(v) leaves the permission value
\* of every member of the roster as it was before the call.
Orig_C6 ==
    [][\A g \in GroupRefs :
          (res'.op = "change_default_permissions" /\ res'.tgt = g)
          => \A m \in SeqToSet(Roster(g)) :
                /\ clients'[m].permissions # 0
                /\ perms'[clients'[m].permissions] = PermValue(m)]_vars

\* the current owner of a group: the group's owner reference, in its roster
IsCurrentOwner(m) ==
    \E g \in GroupRefs : groups[g].owner = m /\ InRoster(g, m)

DefaultValue(m) == perms[groups[clients[m].group].default_perms]

\* C7 (as claimed): on the current owner, set_permissions(v) for every v
\* (255 included) and reset_permissions() fail with Forbidden and leave the
\* owner's permission value at 255.
Orig_C7 ==
    [][\A m \in ClientRefs :
          (IsCurrentOwner(m) /\ res'.tgt = m
             /\ res'.op \in {"set_permissions", "reset_permissions"})
          => (res'.ret = "Forbidden" /\ PermValue(m)' = ALL)]_vars

\* C7 (amended): on the current owner, set_permissions(v) fails with Forbidden
\* for v # 255 and returns without effect for v = 255; reset_permissions()
\* fails with Forbidden when the group's default is not 255 and returns
\* without effect when it is; the owner's value is 255 before and after.
Thm_C7 ==
    [][\A m \in ClientRefs :
          (IsCurrentOwner(m) /\ res'.tgt = m
             /\ res'.op \in {"set_permissions", "reset_permissions"})
          => /\ PermValue(m) = ALL
             /\ PermValue(m)' = ALL
             /\ res'.op = "set_permissions" =>
                   res'.ret = (IF res'.arg = ALL THEN "return" ELSE "Forbidden")
             /\ res'.op = "reset_permissions" =>
                   res'.ret = (IF DefaultValue(m) = ALL THEN "return" ELSE "Forbidden")]_vars

\* C7 witnesses: set_permissions(255) has returned on a current owner
Wit_C7 ==
    /\ res.op = "set_permissions" /\ res.arg = ALL /\ res.ret = "return"
    /\ IsCurrentOwner(res.tgt)

UniqueNicknames(g) ==
    \A i, j \in DOMAIN Roster(g) :
        i # j => clients[Roster(g)[i]].nickname # clients[Roster(g)[j]].nickname

\* C8 (as claimed): Group.add, set_nickname and reset_nickname keep the
\* nicknames of the roster pairwise different.
Orig_C8 ==
    [][\A g \in GroupRefs :
          (res'.op \in {"add", "set_nickname", "reset_nickname"} /\ UniqueNicknames(g))
          => UniqueNicknames(g)']_vars

\* =========================================================== claims (Spec)
\* the group the server runs is active: `group` refers to a Group whose
\* roster has not been emptied by delete()
ActiveGroup == group # 0 /\ Roster(group) # <<>>

\* C2 (as claimed): while a group is active its owner reference designates a
\* member that is in the roster, under every interleaving of the handlers.
Orig_C2 ==
    ActiveGroup => InRoster(group, groups[group].owner)

\* handler s waits for a line on behalf of a member that another handler has
\* removed from the roster of the active group (/kick or /ban: a handler
\* that removes its own member ends)
KickedOut(s) ==
    /\ pc[s] = "recv"
    /\ ActiveGroup
    /\ clients[Me(s)].socket = s
    /\ clients[Me(s)].group = 0
    /\ get_index_of(group, s) = 0

\* C5 (as claimed): a line received on the connection of a member that has
\* been kicked or banned produces no reply and no broadcast, and the handler
\* leaves the command loop.
Orig_C5 ==
    [][\A s \in Sockets :
          (KickedOut(s) /\ lines' = lines - 1 /\ pc'[s] # "recv")
          => (loc'[s].out = {} /\ pc'[s] \in {"except", "done"})]_vars

\* C9 (as claimed): the nicknames of the roster of the running group are
\* pairwise different in every state, whatever the interleaving of /nick
\* lines and joins.
Orig_C9 ==
    ActiveGroup => UniqueNicknames(group)

\* =========================================================== claims (SpecRun)
\* C1 (as claimed): in every state in which a group is active, its owner
\* holds permission value 255, under every interleaving of /setperms,
\* /setowner, /kick, /ban and /quit.
Orig_C1 ==
    ActiveGroup =>
        LET o == groups[group].owner
        IN  (InRoster(group, o) /\ clients[o].permissions # 0) => PermValue(o) = ALL

\* C10 (as claimed): a /kick, /ban or /setperms that loses a race (no
\* connection has failed) is never resolved by removing the issuing actor
\* from the roster ("left" is broadcast after the actor's _kill), nor by
\* deleting the group (position del2 follows group.delete()).
Orig_C10 ==
    \A s \in Sockets :
        (/\ loc[s].cmd \in {"/kick", "/ban", "/setperms"}
         /\ loc[s].inexc
         /\ loc[s].cause \notin {"recv", "OSError"})
        => (loc[s].bmsg # "left" /\ pc[s] # "del2")

\* C11 (as claimed): when the owner issues /delete, every member that is in
\* the roster at that moment, whatever its permission value, is sent the
\* /delete signal before group.delete() runs (position del).
Orig_C11 ==
    [][\A s \in Sockets :
          (/\ pc[s] = "deliver" /\ pc'[s] = "del"
           /\ loc[s].cmd = "/delete" /\ ~loc[s].inexc)
          => \A i \in DOMAIN loc[s].snap :
                <<clients[loc[s].snap[i]].socket, "/delete">> \in loc'[s].out]_vars

\* C12 (as claimed): when recv fails on the connection of a current member M
\* the teardown happens: once M's handler has ended, M is no longer in the
\* roster, or (M the owner) the group reference is cleared.
Orig_C12 ==
    \A s \in Sockets :
        (pc[s] = "done" /\ loc[s].cause = "recv" /\ group # 0)
        => ~InRoster(group, Me(s))

\* =========================================================== claims (SpecLive)
\* the peer of handler s's connection has gone, the member of s is in the
\* roster of the running group and is not its owner, and no other handler
\* is at work or has a line to come
LostMember(s) ==
    /\ conn[s] = "lost"
    /\ group # 0
    /\ InRoster(group, Me(s))
    /\ clients[Me(s)].socket = s
    /\ groups[group].owner # Me(s)
    /\ lines = 0
    /\ \A t \in Sockets \ {s} : ~Busy(t)

\* handler s has ended and its member has been torn down
TornDown(s) ==
    /\ pc[s] \in {"done", "crashed"}
    /\ group # 0 => ~InRoster(group, Me(s))

\* C13 (as claimed, for a member that is not the owner): if the peer of a
\* current member's connection closes it, then eventually the member is out
\* of the roster and the connection's handler has ended.
Orig_C13 ==
    \A s \in Sockets : LostMember(s) ~> TornDown(s)

\* =========================================================== claims (SpecRun)
\* the transports broadcast is to write to when its loop starts: those of
\* the members of its copy of the roster that still have permissions, have
\* read_messages and are not the excluded member
Recipients(t) ==
    {clients[loc[t].snap[i]].socket : i \in
        {j \in DOMAIN loc[t].snap :
            /\ clients[loc[t].snap[j]].permissions # 0
            /\ Receives(loc[t].snap[j], loc[t].bexc)}}

\* C14 (as claimed): broadcast writes the message to every member that was
\* in the roster when it was called, reads messages and is not excluded
\* (all their connections being open), whatever other handlers do meanwhile.
Orig_C14 ==
    [][\A t \in Sockets :
          (/\ pc[t] = "deliver" /\ pc'[t] # "deliver"
           /\ \A i \in DOMAIN loc[t].snap :
                 conn[clients[loc[t].snap[i]].socket] = "open")
          => \A x \in Recipients(t) : <<x, loc[t].bmsg>> \in loc'[t].out]_vars

\* what the claim requires of a /setperms v T by actor c on target m
Admitted(c, v, m) ==
    /\ clients[c].permissions # 0
    /\ update_permissions(PermValue(c))
    /\ v \in 0..ALL
    /\ BitAnd(v, PermValue(c)) = v
    /\ group # 0
    /\ InRoster(group, m)
    /\ clients[m].socket # clients[c].socket
    /\ groups[group].owner # m
    /\ BitAnd(PermValue(m), PermValue(c)) = PermValue(m)

\* C15: a permission value changes only by the update of a /setperms v T
\* that was let through when its line was dispatched, and it is let through
\* only if the actor then holds update_permissions, v is in 0..255 and a
\* subset of the actor's bits, T is a member of the roster other than the
\* actor and not the owner, and T's bits are a subset of the actor's; the
\* value written is v. Every other step leaves every value as it was.
Thm_C15 ==
    [][/\ \A s \in Sockets :
            /\ (pc'[s] = "setperms_check" /\ pc[s] # "setperms_check")
               => (pc[s] = "recv" /\ Admitted(Me(s), loc'[s].num, loc'[s].member))
            /\ (pc'[s] = "setperms_update" /\ pc[s] # "setperms_update")
               => /\ pc[s] = "setperms_check"
                  /\ loc'[s].num = loc[s].num
                  /\ loc'[s].member = loc[s].member
       /\ \A p \in DOMAIN perms :
            perms'[p] # perms[p]
            => \E t \in Sockets :
                  /\ pc[t] = "setperms_update" /\ pc'[t] # "setperms_update"
                  /\ clients[loc[t].member].permissions = p
                  /\ perms'[p] = loc[t].num]_vars

\* C15 witness: an actor that is not the owner has changed a member's value
Wit_C15 ==
    \E s \in Sockets :
        /\ loc[s].cmd = "/setperms" /\ pc[s] = "bcast" /\ ~loc[s].inexc
        /\ loc[s].bmsg = "perms_changed"
        /\ group # 0 /\ groups[group].owner # Me(s)
        /\ clients[loc[s].member].permissions # 0
        /\ PermValue(loc[s].member) = 0

\* what the claim requires of a /kick T or /ban T (k) by actor c on target m
KickAdmitted(c, k, m) ==
    /\ clients[c].permissions # 0
    /\ k = "/kick" => kick_members(PermValue(c))
    /\ k = "/ban" => ban_members(PermValue(c))
    /\ group # 0
    /\ InRoster(group, m)
    /\ clients[m].socket # clients[c].socket
    /\ groups[group].owner # m
    /\ BitAnd(PermValue(m), PermValue(c)) = PermValue(m)

\* handler s is to receive a line for its member, which is in the roster of
\* the running group, over an open connection
MemberWaits(s) ==
    /\ pc[s] = "recv"
    /\ conn[s] = "open"
    /\ group # 0
    /\ InRoster(group, Me(s))
    /\ clients[Me(s)].socket = s

OwnerAdmitted(c, m) ==
    /\ group # 0
    /\ groups[group].owner = c
    /\ InRoster(group, m)
    /\ clients[m].socket # clients[c].socket

\* C17: a /setowner dispatched for a member A either passes the tests, and
\* then A is the owner and the target T is another member, or is answered
\* with one reply and changes nothing, the reply being Permission denied
\* when A is not the owner; transfer_ownership is reached only through that
\* dispatch, gives T a Permissions object of its own with the value 255 and
\* then makes T the owner, and neither step changes the roster, its order,
\* the ban set or the permissions of any other member, the previous owner
\* included; the owner of a group changes to another member in no other way
Thm_C17 ==
    [][\A s \in Sockets :
          /\ (MemberWaits(s) /\ pc'[s] # "recv" /\ loc'[s].cmd = "/setowner")
             => \/ /\ pc'[s] = "own_grant"
                   /\ OwnerAdmitted(Me(s), loc'[s].member)
                \/ /\ pc'[s] = "top"
                   /\ \E r \in {"denied", "missing_argument", "not_found", "self"} :
                         /\ loc'[s].out = {<<s, r>>}
                         /\ groups[group].owner # Me(s) => r = "denied"
                   /\ <<perms, clients, groups, group>>' = <<perms, clients, groups, group>>
          /\ (pc'[s] = "own_grant" /\ pc[s] # "own_grant") => pc[s] = "recv"
          /\ (pc'[s] = "own_assign" /\ pc[s] # "own_assign")
             => /\ pc[s] = "own_grant"
                /\ loc'[s].member = loc[s].member
                /\ LET T == loc[s].member
                   IN  /\ groups' = groups
                       /\ clients'[T].permissions \notin DOMAIN perms
                       /\ perms'[clients'[T].permissions] = ALL
                       /\ clients'[T] = [clients[T] EXCEPT
                                            !.permissions = clients'[T].permissions]
                       /\ \A m \in DOMAIN clients \ {T} : clients'[m] = clients[m]
                       /\ \A i \in DOMAIN perms : perms'[i] = perms[i]
          /\ (pc[s] = "own_assign" /\ pc'[s] # "own_assign")
             => /\ groups' = [groups EXCEPT ![loc[s].g].owner = loc[s].member]
                /\ <<perms, clients>>' = <<perms, clients>>
          /\ \A g \in DOMAIN groups :
                (groups'[g].owner \notin {0, groups[g].owner})
                => \E t \in Sockets : /\ pc[t] = "own_assign"
                                      /\ pc'[t] # "own_assign"
                                      /\ loc[t].g = g
                                      /\ loc[t].member = groups'[g].owner]_vars

\* C17 witness: the owner a has issued /setowner for another member, who is
\* now the owner with 255, while a is still in the roster with the 255 it
\* had, the third member still has the default and roster and bans are as
\* they were
Wit_C17 ==
    \E s \in Sockets :
        /\ pc[s] = "own_conf"
        /\ loc[s].cmd = "/setowner"
        /\ group # 0
        /\ groups[group].owner = loc[s].member
        /\ loc[s].member # Me(s)
        /\ Roster(group) = <<1, 2, 3>>
        /\ groups[group].bans = {}
        /\ Me(s) = 1
        /\ PermValue(loc[s].member) = ALL
        /\ PermValue(Me(s)) = ALL
        /\ \E m \in {2, 3} \ {loc[s].member} : PermValue(m) = DEFAULT

\* C18 (as claimed): transfer_ownership(X) for an X that is not in the
\* roster of the group is rejected and leaves the owner reference and all
\* permissions as they were, a destroyed member object included.
Orig_C18 ==
    [][\A g \in GroupRefs, m \in ClientRefs :
          (/\ res'.op = "transfer_ownership" /\ res'.tgt = g /\ res'.arg = m
           /\ ~InRoster(g, m))
          => /\ res'.ret # "ok"
             /\ groups'[g].owner = groups[g].owner
             /\ perms' = perms
             /\ \A c \in ClientRefs : clients'[c].permissions = clients[c].permissions]_vars

\* user u has been removed from group g: a destroyed member object made
\* from u exists and no member of the roster has u's transport
Removed(g, u) ==
    /\ get_index_of(g, users[u].socket) = 0
    /\ \E c \in ClientRefs : clients[c].socket = users[u].socket /\ Destroyed(c)

\* C19: kick() on a member of the roster that is not the owner (is_owner,
\* which compares the member with the group's owner as users are compared,
\* by transport) removes that member alone, keeping the order of the others,
\* the owner and the ban set; kick() on a member of the roster that is the
\* owner fails with Forbidden and changes nothing; and
\* add(u) for a user that was removed and not banned, on a group that has
\* not been deleted, appends a new member for u at the end of the roster,
\* holding the value of the group's default permissions at that time
Thm_C19 ==
    [][/\ \A m \in ClientRefs :
             (res'.op = "kick" /\ res'.tgt = m)
             => LET g == clients[m].group
                IN  /\ (g # 0 /\ InRoster(g, m) /\ ~is_owner(m))
                       => /\ res'.ret = "ok"
                          /\ groups'[g].clients = SelectSeq(Roster(g), LAMBDA x : x # m)
                          /\ groups'[g].bans = groups[g].bans
                          /\ groups'[g].owner = groups[g].owner
                          /\ Destroyed(m)'
                    /\ (g # 0 /\ InRoster(g, m) /\ is_owner(m))
                       => /\ res'.ret = "Forbidden"
                          /\ <<perms, clients, groups>>' = <<perms, clients, groups>>
       /\ \A g \in GroupRefs, u \in DOMAIN users :
             (/\ res'.op = "add" /\ res'.tgt = g /\ res'.arg = u
              /\ Removed(g, u) /\ ~BannedUser(g, u)
              /\ groups[g].default_perms # 0)
             => LET n == Len(clients) + 1
                IN  /\ res'.ret = "new"
                    /\ groups'[g].clients = Append(Roster(g), n)
                    /\ groups'[g].bans = groups[g].bans
                    /\ clients'[n].socket = users[u].socket
                    /\ clients'[n].group = g
                    /\ perms'[clients'[n].permissions] = perms[groups[g].default_perms]]_vars

\* C19 witness: a user whose member was kicked has been added again and is
\* the last member of the roster, with the default value, the ban set empty
Wit_C19 ==
    /\ res.op = "add" /\ res.ret = "new"
    /\ LET g == res.tgt
           n == Roster(g)[Len(Roster(g))]
       IN  /\ Len(Roster(g)) = 2
           /\ groups[g].bans = {}
           /\ clients[n].socket = users[res.arg].socket
           /\ PermValue(n) = perms[groups[g].default_perms]
           /\ \E c \in ClientRefs : /\ c # n
                                    /\ clients[c].socket = clients[n].socket
                                    /\ Destroyed(c)

\* handler s works on a /quit line, outside the except block
Quitting(s) == loc[s].cmd = "/quit" /\ ~loc[s].inexc

\* C20: a /quit dispatched for the owner is answered with the refusal and
\* changes nothing; dispatched for another member M it is answered with the
\* /quit signal and goes on to _kill, which (M still in the roster) removes
\* M alone, keeping the order of the others, the owner, the ban set and
\* every other member's object and permissions; the broadcast that follows
\* takes the roster that remains, and (no member of it destroyed meanwhile,
\* no write failing) writes the departure message to every member of it that
\* reads messages, after which the handler has ended; a handler that has
\* gone past the owner test of a /quit never reads another line
Thm_C20 ==
    [][\A s \in Sockets :
          /\ (MemberWaits(s) /\ pc'[s] # "recv" /\ loc'[s].cmd = "/quit")
             => /\ <<perms, clients, groups, group>>' = <<perms, clients, groups, group>>
                /\ IF groups[group].owner = Me(s)
                   THEN pc'[s] = "top" /\ loc'[s].out = {<<s, "quit_refused">>}
                   ELSE pc'[s] = "quit_kill" /\ loc'[s].out = {<<s, "/quit">>}
          /\ (pc'[s] = "quit_kill" /\ pc[s] # "quit_kill") => pc[s] = "recv"
          /\ (/\ pc[s] = "quit_kill" /\ pc'[s] # "quit_kill"
              /\ group # 0 /\ InRoster(group, Me(s)) /\ clients[Me(s)].group = group)
             => /\ groups'[group].clients =
                       SelectSeq(Roster(group), LAMBDA x : x # Me(s))
                /\ groups'[group].bans = groups[group].bans
                /\ groups'[group].owner = groups[group].owner
                /\ Destroyed(Me(s))'
                /\ \A m \in ClientRefs \ {Me(s)} : clients'[m] = clients[m]
                /\ perms' = perms
                /\ pc'[s] = "bcast" /\ loc'[s].bmsg = "left" /\ loc'[s].bexc = 0
          /\ (Quitting(s) /\ pc[s] = "bcast" /\ pc'[s] # "bcast" /\ group # 0)
             => /\ pc'[s] = "deliver"
                /\ loc'[s].snap = Roster(group)
                /\ ~InRoster(group, Me(s))
          /\ (/\ Quitting(s) /\ pc[s] = "deliver" /\ pc'[s] # "deliver"
              /\ \A i \in DOMAIN loc[s].snap :
                    /\ clients[loc[s].snap[i]].permissions # 0
                    /\ conn[clients[loc[s].snap[i]].socket] = "open")
             => /\ pc'[s] = "done"
                /\ \A x \in Recipients(s) : <<x, "left">> \in loc'[s].out
          /\ (loc[s].cmd = "/quit" /\ pc[s] \notin {"recv", "top", "bind"})
             => pc'[s] \notin {"recv", "top", "bind"}]_vars

\* C20 witness: member c has quit: its handler has ended after writing the
\* departure message to a and b, who are the roster, a still the owner, the
\* ban set empty and b's permissions the default
Wit_C20 ==
    /\ pc[3] = "done"
    /\ Quitting(3)
    /\ Me(3) = 3
    /\ group # 0
    /\ Roster(group) = <<1, 2>>
    /\ groups[group].owner = 1
    /\ groups[group].bans = {}
    /\ Destroyed(3)
    /\ PermValue(1) = ALL /\ PermValue(2) = DEFAULT
    /\ {<<1, "left">>, <<2, "left">>} \subseteq loc[3].out

\* =========================================================== claims (Spec)
\* handler s has ended after it started the deletion of the group its member
\* owned (the /delete command, or the except block for the owner)
OwnerGone(s) == pc[s] = "done" /\ loc[s].bmsg = "/delete"

\* C21 (as claimed): only the group the process-wide reference names has
\* members; once the owner's /delete or the owner's connection failure has
\* been handled, the reference is empty or names a later group; and the
\* client that connects when the reference is empty creates a new group of
\* which it is the only member and the owner with 255, with an empty ban set
\* and a default of 19 held in objects no earlier group has used.
Orig_C21 ==
    /\ [](\A g \in DOMAIN groups : g # group => Roster(g) = <<>>)
    /\ [](\A s \in Sockets :
             OwnerGone(s) => (group = 0 \/ ~InRoster(group, Me(s))))
    /\ [][(pc[0] = "create" /\ groups' # groups)
          => /\ group = 0
             /\ group' \notin DOMAIN groups
             /\ LET g == groups'[group']
                IN  /\ g.clients = <<g.owner>>
                    /\ clients'[g.owner].socket = loc[0].sock
                    /\ clients'[g.owner].permissions \notin DOMAIN perms
                    /\ g.default_perms \notin DOMAIN perms
                    /\ perms'[clients'[g.owner].permissions] = ALL
                    /\ perms'[g.default_perms] = DEFAULT
                    /\ g.bans = {}]_vars

\* ---------------------------------------------------------------- SpecCmp
\* The comparisons of Permissions objects: two objects Permissions(a) and
\* Permissions(b) for every a, b of 0..255, and one call that applies <=,
\* >=, < and > to a pair of them (x <= y is x.__le__(y), and so on).
InitCmp ==
    /\ perms \in [1..2 -> 0..ALL]
    /\ clients = <<>>
    /\ groups = <<>>
    /\ users = <<>>
    /\ nextId = 1
    /\ group = 0
    /\ conn = [s \in Sockets |-> "new"]
    /\ pc = [t \in Threads |-> IF t = 0 THEN "accept" ELSE "idle"]
    /\ loc = [t \in Threads |-> Loc0]
    /\ lines = 0
    /\ res = [n |-> 0, op |-> "none", tgt |-> 0, arg |-> 0, ret |-> "ok"]

Compare(x, y) ==
    /\ res.n = 0
    /\ res' = [n |-> 1, op |-> "compare", tgt |-> x, arg |-> y,
               ret |-> [le |-> perm_le(perms[x], perms[y]),
                        ge |-> perm_ge(perms[x], perms[y]),
                        lt |-> perm_lt(perms[x], perms[y]),
                        gt |-> perm_gt(perms[x], perms[y])]]
    /\ UNCHANGED <<heap, users, group, conn, pc, loc, lines>>

NextCmp == \E x \in DOMAIN perms, y \in DOMAIN perms : Compare(x, y)

SpecCmp == InitCmp /\ [][NextCmp]_vars

\* ========================================================= claims (SpecCmp)
\* every permission of the set a is a permission of the set b
Included(a, b) == \A k \in 0..7 : Bit(a, k) = 1 => Bit(b, k) = 1

\* C22: for the objects A, B of values a, b compared in one call: A <= B
\* iff a & b = a, which is iff every bit of a is a bit of b; A <= A;
\* (A <= B and B <= A) iff a = b; A >= B iff B <= A; A < B iff A <= B and
\* a # b, A > B iff A >= B and a # b; and when neither A <= B nor A >= B
\* none of the four holds
Thm_C22 ==
    res.op = "compare"
    => LET a == perms[res.tgt]
           b == perms[res.arg]
           r == res.ret
       IN  /\ r.le <=> (BitAnd(a, b) = a)
           /\ r.le <=> Included(a, b)
           /\ a = b => r.le
           /\ (r.le /\ perm_le(b, a)) <=> (a = b)
           /\ r.ge <=> perm_le(b, a)
           /\ r.lt <=> (r.le /\ a # b)
           /\ r.gt <=> (r.ge /\ a # b)
           /\ (~r.le /\ ~r.ge) => (~r.lt /\ ~r.gt)

\* C22 witness: two sets that are incomparable (19 and 12 share no bit and
\* neither is empty) have been compared, and none of the four holds
Wit_C22 ==
    /\ res.op = "compare"
    /\ perms[res.tgt] = DEFAULT /\ perms[res.arg] = 12
    /\ ~res.ret.le /\ ~res.ret.ge /\ ~res.ret.lt /\ ~res.ret.gt

\* ========================================================= claims (SpecRun)
\* C23 (as claimed): the write of a successful /setperms v T changes the
\* permission value of T alone: every other member of the roster keeps its
\* value, and so does the default the group gives to later joiners.
Orig_C23 ==
    [][\A s \in Sockets :
          (/\ pc[s] = "setperms_update" /\ pc'[s] = "bcast"
           /\ group # 0 /\ groups[group].default_perms # 0)
          => /\ \A m \in SeqToSet(Roster(group)) \ {loc[s].member} :
                   clients[m].permissions # 0 => PermValue(m)' = PermValue(m)
             /\ perms'[groups[group].default_perms] =
                   perms[groups[group].default_perms]]_vars

\* C24 (as claimed): the member a handler has bound for the line it waits
\* for is the member whose transport is the handler's connection, whatever
\* other handlers removed from the roster between get_index_of and
\* group.clients[index].
Orig_C24 ==
    \A s \in Sockets : pc[s] = "recv" => clients[Me(s)].socket = s

\* handler s is in its except block because a write failed, while its own
\* connection is open: the write that failed was to another member's
\* transport (a write fails only on a transport whose peer has gone or that
\* the server has closed)
OtherWriteFailed(s) ==
    /\ loc[s].inexc
    /\ loc[s].cause = "OSError"
    /\ conn[s] = "open"

\* C25 (as claimed): a handler whose write to another member's transport
\* failed removes nobody from the roster and does not delete the group.
Orig_C25 ==
    [][\A s \in Sockets :
          (OtherWriteFailed(s) /\ pc'[s] # pc[s])
          => <<clients, groups, group>>' = <<clients, groups, group>>]_vars

\* =========================================================== claims (Spec)
\* the accept loop has ended on an exception that the deletion of the group
\* during a join raises: group is None (AttributeError), or the Group object
\* has lost its default permissions (TypeError in Client())
JoinCrashed == pc[0] = "crashed" /\ loc[0].cause \in {"AttributeError", "TypeError"}

\* C26 (as claimed): a join that interleaves with the owner's /delete ends
\* with the client destroyed or the owner of a new group, and the accept
\* loop goes on: it never ends on an exception the deletion raised.
Orig_C26 == ~JoinCrashed

=============================================================================
